---- MODULE Spec2Model ----
(***************************************************************************)
(* The workflow store of orchestration_flow (src/src/store/workflowStore.ts)*)
(* as a state machine: the graph (nodes, edges), the scheduler              *)
(* getExecutionOrder, the validator validateWorkflow, the connection policy *)
(* onConnect, and the asynchronous executor executeWorkflow with the        *)
(* simulated execution port apiService.executeNode.                         *)
(*                                                                          *)
(* JavaScript values: an optional value (undefined / null, or present) is a *)
(* sequence of length at most one: <<>> is absent, <<v>> is v.  An object   *)
(* used as a payload is a set of <<key, value>> pairs.                      *)
(***************************************************************************)
EXTENDS Integers, Sequences, FiniteSets, TLC

VARIABLES
  nodes,           \* store.nodes: sequence of node records
  edges,           \* store.edges: sequence of edge records
  isExecuting,     \* store.isExecuting
  executionOrder,  \* store.executionOrder
  runs,            \* the executeWorkflow invocations: one record per call
  portLog,         \* the calls made to apiService.executeNode, in order
  lastAlert,       \* the text of the last alert(...) shown
  fnOut,           \* the result of the last application of a pure function
  storage          \* localStorage['idmscan-workflow']: absent, or a text

vars == <<nodes, edges, isExecuting, executionOrder, runs, portLog, lastAlert, fnOut,
         storage>>

-----------------------------------------------------------------------------
(* Bounds of the model *)

\* nodes of a graph handed to the scheduler and the validator
MaxNodes == 3
\* edges of a graph handed to the scheduler (edge lists, order kept)
MaxEdges == 3
\* edges of a graph handed to the validator and the executor
MaxWires == 2
\* executeWorkflow invocations that get past validation in one behaviour
MaxRuns == 2

-----------------------------------------------------------------------------
(* JavaScript values *)

Undefined == <<>>

Some(v) == <<v>>

\* x || d
OrElse(x, d) == IF x = Undefined THEN d ELSE x[1]

EmptyObject == {}

\* obj[key]
Get(obj, key) ==
  IF \E p \in obj : p[1] = key
  THEN Some((CHOOSE p \in obj : p[1] = key)[2])
  ELSE Undefined

RECURSIVE SeqFilter(_, _)
\* s.filter(i => keep[i]) with keep a function on the indices of s
SeqFilter(s, keep) ==
  IF s = <<>> THEN <<>>
  ELSE LET rest == SeqFilter(Tail(s), [i \in 1..(Len(s) - 1) |-> keep[i + 1]])
       IN  IF keep[1] THEN <<Head(s)>> \o rest ELSE rest

\* s.find(x => hit[i]): the first element, absent when there is none
SeqFind(s, hit) ==
  LET found == SeqFilter(s, hit)
  IN  IF found = <<>> THEN Undefined ELSE Some(found[1])

-----------------------------------------------------------------------------
(* Types: NodeData and the reactflow Node and Edge around it *)

Kinds == {"start", "end", "liveness", "cardCapture", "scanner"}

Statuses == {"idle", "running", "success", "failed"}

\* a reactflow node carrying NodeData, as onDrop and importWorkflow build it
MkNode(id, kind, label, apiEndpoint, inputs) ==
  [ id       |-> id,
    position |-> <<0, 0>>,
    data     |-> [ id            |-> id,
                   type          |-> kind,
                   label         |-> label,
                   apiEndpoint   |-> apiEndpoint,
                   inputs        |-> inputs,
                   outputs       |-> Undefined,
                   status        |-> "idle",
                   response      |-> Undefined,
                   error         |-> Undefined,
                   executionTime |-> Undefined,
                   timestamp     |-> Undefined ] ]

MkEdge(source, target) ==
  [ id |-> <<source, target>>, source |-> source, target |-> target ]

NodeIds(ns) == { ns[i].id : i \in 1..Len(ns) }

\* nodes.find(n => n.id === id)
FindNode(ns, id) == SeqFind(ns, [i \in 1..Len(ns) |-> ns[i].id = id])

\* nodes.find(n => n.id === id)?.data.type
KindOf(ns, id) ==
  LET n == FindNode(ns, id)
  IN  IF n = Undefined THEN Undefined ELSE Some(n[1].data.type)

-----------------------------------------------------------------------------
(* Scheduler: getExecutionOrder, Kahn's algorithm with a FIFO queue *)

\* adjacencyList after the two forEach loops: targets of each id's edges, in edge order
AdjacencyList(ns, es) ==
  [ id \in NodeIds(ns) |->
      LET out == SeqFilter(es, [i \in 1..Len(es) |-> es[i].source = id])
      IN  [ i \in 1..Len(out) |-> out[i].target ] ]

\* inDegree after the two forEach loops.  A target that is no node id gets
\* undefined++ = NaN, which never equals 0: it is left out of the map.
InDegree(ns, es) ==
  [ id \in NodeIds(ns) |->
      Cardinality({ i \in 1..Len(es) : es[i].target = id }) ]

\* adjacencyList[edge.source].push(...) throws when edge.source is no node id
SchedulerThrows(ns, es) ==
  \E i \in 1..Len(es) : es[i].source \notin NodeIds(ns)

\* a scheduler that seeds the queue with every node, whatever its in-degree
InitialQueueOfAll(ns, inDegree) == [ i \in 1..Len(ns) |-> ns[i].id ]

\* nodes.filter(node => inDegree[node.id] === 0).map(node => node.id)
InitialQueue(ns, inDegree) ==
  LET zero == SeqFilter(ns, [i \in 1..Len(ns) |-> inDegree[ns[i].id] = 0])
  IN  [ i \in 1..Len(zero) |-> zero[i].id ]

RECURSIVE RelaxEager(_, _, _)
\* a scheduler that enqueues every neighbour it has not emptied before, ready or not
RelaxEager(neighbors, inDegree, queue) ==
  IF neighbors = <<>> THEN [ inDegree |-> inDegree, queue |-> queue ]
  ELSE LET nb == Head(neighbors)
       IN  IF nb \notin DOMAIN inDegree
           THEN RelaxEager(Tail(neighbors), inDegree, queue)
           ELSE RelaxEager(Tail(neighbors),
                           [inDegree EXCEPT ![nb] = 0],
                           IF inDegree[nb] > 0 THEN Append(queue, nb) ELSE queue)

RECURSIVE Relax(_, _, _)
\* adjacencyList[current].forEach(neighbor => { inDegree[neighbor]--; ... push })
Relax(neighbors, inDegree, queue) ==
  IF neighbors = <<>> THEN [ inDegree |-> inDegree, queue |-> queue ]
  ELSE LET nb == Head(neighbors)
       IN  IF nb \notin DOMAIN inDegree
           THEN Relax(Tail(neighbors), inDegree, queue)
           ELSE LET d == inDegree[nb] - 1
                IN  Relax(Tail(neighbors),
                          [inDegree EXCEPT ![nb] = d],
                          IF d = 0 THEN Append(queue, nb) ELSE queue)

RECURSIVE DrainLifo(_, _, _, _)
\* a scheduler that takes the newest id of the queue (pop) instead of the oldest
DrainLifo(queue, result, inDegree, adjacencyList) ==
  IF queue = <<>> THEN result
  ELSE LET current == queue[Len(queue)]
           r == Relax(adjacencyList[current], inDegree, SubSeq(queue, 1, Len(queue) - 1))
       IN  DrainLifo(r.queue, Append(result, current), r.inDegree, adjacencyList)

RECURSIVE Drain(_, _, _, _)
\* while (queue.length > 0) { current = queue.shift(); result.push(current); ... }
Drain(queue, result, inDegree, adjacencyList) ==
  IF queue = <<>> THEN result
  ELSE LET current == Head(queue)
           r == Relax(adjacencyList[current], inDegree, Tail(queue))
       IN  Drain(r.queue, Append(result, current), r.inDegree, adjacencyList)

\* the result of getExecutionOrder, or the TypeError it throws
getExecutionOrder(ns, es) ==
  IF SchedulerThrows(ns, es)
  THEN [ threw |-> TRUE, order |-> <<>> ]
  ELSE LET inDegree == InDegree(ns, es)
       IN  [ threw |-> FALSE,
             order |-> Drain(InitialQueue(ns, inDegree), <<>>, inDegree,
                             AdjacencyList(ns, es)) ]

-----------------------------------------------------------------------------
(* Validator: validateWorkflow *)

NodesOfKind(ns, kind) == SeqFilter(ns, [i \in 1..Len(ns) |-> ns[i].data.type = kind])

\* edges.filter(e => e.target === id)
IncomingEdges(es, id) == SeqFilter(es, [i \in 1..Len(es) |-> es[i].target = id])

StartErrors(ns) ==
  LET startNodes == NodesOfKind(ns, "start")
  IN  (IF Len(startNodes) = 0 THEN <<"Workflow must have exactly one start node">> ELSE <<>>)
      \o (IF Len(startNodes) > 1 THEN <<"Workflow can only have one start node">> ELSE <<>>)

EndErrors(ns) ==
  LET endNodes == NodesOfKind(ns, "end")
  IN  (IF Len(endNodes) = 0 THEN <<"Workflow must have exactly one end node">> ELSE <<>>)
      \o (IF Len(endNodes) > 1 THEN <<"Workflow can only have one end node">> ELSE <<>>)

\* a validator that counts a scanner's incoming edges and does not look at the source
ScannerErrorCountOnly(ns, es, scanner) ==
  IF Len(IncomingEdges(es, scanner.id)) # 1
  THEN <<"Scanner node must have exactly one incoming connection">>
  ELSE <<>>

\* the body of the loop over scannerNodes, for one scanner
ScannerError(ns, es, scanner) ==
  LET incomingEdges == IncomingEdges(es, scanner.id)
  IN  IF Len(incomingEdges) # 1
      THEN <<"Scanner node must have exactly one incoming connection">>
      ELSE IF KindOf(ns, incomingEdges[1].source) # Some("cardCapture")
           THEN <<"Scanner node must connect directly from Card Capture node">>
           ELSE <<>>

RECURSIVE ScannerErrors(_, _, _)
ScannerErrors(ns, es, scannerNodes) ==
  IF scannerNodes = <<>> THEN <<>>
  ELSE ScannerError(ns, es, Head(scannerNodes)) \o ScannerErrors(ns, es, Tail(scannerNodes))

\* a validator that stops at the first rule that fails
validateWorkflowShortCircuit(ns, es) ==
  LET errors == IF StartErrors(ns) # <<>> THEN StartErrors(ns)
                ELSE IF EndErrors(ns) # <<>> THEN EndErrors(ns)
                ELSE ScannerErrors(ns, es, NodesOfKind(ns, "scanner"))
  IN  [ isValid |-> errors = <<>>, errors |-> errors ]

validateWorkflow(ns, es) ==
  LET errors == StartErrors(ns) \o EndErrors(ns)
                \o ScannerErrors(ns, es, NodesOfKind(ns, "scanner"))
  IN  [ isValid |-> errors = <<>>, errors |-> errors ]

-----------------------------------------------------------------------------
(* Graph Model: updateNodeData and resetWorkflow *)

\* a merge that lets the patch have the last word on every key
MergeDataPatchLast(data, patch) ==
  [ f \in DOMAIN data |-> IF f \in DOMAIN patch THEN patch[f] ELSE data[f] ]

\* { ...node.data, ...patch, id: node.data.id, type: node.data.type }
MergeData(data, patch) ==
  [ f \in DOMAIN data |->
      IF f \in DOMAIN patch /\ f \notin {"id", "type"} THEN patch[f] ELSE data[f] ]

\* an update that patches every node, whatever its id
updateNodeDataAll(ns, nodeId, patch) ==
  [ i \in 1..Len(ns) |-> [ ns[i] EXCEPT !.data = MergeData(ns[i].data, patch) ] ]

\* the nodes after updateNodeData(nodeId, patch)
updateNodeData(ns, nodeId, patch) ==
  [ i \in 1..Len(ns) |->
      IF ns[i].id = nodeId
      THEN [ ns[i] EXCEPT !.data = MergeData(ns[i].data, patch) ]
      ELSE ns[i] ]

\* a reset that leaves the error of a node in place
ResetNodesKeepError(ns) ==
  [ i \in 1..Len(ns) |->
      [ ns[i] EXCEPT !.data =
          [ ns[i].data EXCEPT !.status = "idle",
                              !.response = Undefined,
                              !.executionTime = Undefined,
                              !.timestamp = Undefined ] ] ]

\* the nodes after resetWorkflow
ResetNodes(ns) ==
  [ i \in 1..Len(ns) |->
      [ ns[i] EXCEPT !.data =
          [ ns[i].data EXCEPT !.status = "idle",
                              !.response = Undefined,
                              !.error = Undefined,
                              !.executionTime = Undefined,
                              !.timestamp = Undefined ] ] ]

\* new Date().toISOString(): only its presence is modelled
Now == Some("ts")

-----------------------------------------------------------------------------
(* External execution port: apiService.executeNode *)

\* the keys of the responses table, with the kind of data each yields
Responses ==
  [ e \in {"/jdmscan/liveness", "/jdmscan/card-capture", "/jdmscan/scanner"} |->
      CASE e = "/jdmscan/liveness"     -> "liveness"
        [] e = "/jdmscan/card-capture" -> "card"
        [] e = "/jdmscan/scanner"      -> "scan" ]

\* responses[endpoint]
Recognized(endpoint) == endpoint \in DOMAIN Responses

\* what executeNode returns for a recognized endpoint: of the data, the fields
\* that tell the responses apart (the random sessionId, the timestamp and
\* processingTime are left out: nothing reads them)
ApiResponse(endpoint, payload, nodeId) ==
  [ success  |-> TRUE,
    data     |-> [ result    |-> Responses[endpoint],
                   token     |-> Get(payload, "token") ],
    nodeId   |-> nodeId,
    endpoint |-> endpoint ]

\* the message of the Error executeNode throws otherwise
EndpointNotFound(endpoint) == <<"Endpoint not found: ", endpoint>>

-----------------------------------------------------------------------------
(* Executor: executeWorkflow *)

RunIds == 1..MaxRuns

\* an executeWorkflow invocation: its position (pc), the nodes it captured on
\* entry, its execution order, the index of the node it works on, previousResult
UnusedRun ==
  [ pc |-> "unused", nodes |-> <<>>, order |-> <<>>, i |-> 0, previousResult |-> Undefined ]

NoAlert == [ text |-> "", errors |-> <<>> ]

\* alert('Workflow validation failed: ' + validation.errors.join(', '))
ValidationAlert(errors) == [ text |-> "Workflow validation failed: ", errors |-> errors ]

\* a gate that lets every graph through
PassesAlways(validation) == TRUE

\* if (!validation.isValid) { ...; return; }
PassesValidation(validation) == validation.isValid

RECURSIVE ScannerPreflight(_, _, _)
\* the second check of the scanners, over the nodes left to look at:
\* the alert it returns with, absent when it lets the run start
ScannerPreflight(ns, es, rest) ==
  IF rest = <<>> THEN Undefined
  ELSE LET node == Head(rest)
           incomingEdges == IncomingEdges(es, node.id)
       IN  IF node.data.type # "scanner" THEN ScannerPreflight(ns, es, Tail(rest))
           ELSE IF Len(incomingEdges) # 1
           THEN Some([ text |-> "Scanner node must have exactly one incoming connection from Card Capture",
                       errors |-> <<>> ])
           ELSE IF KindOf(ns, incomingEdges[1].source) # Some("cardCapture")
           THEN Some([ text |-> "Scanner node must connect directly from Card Capture node",
                       errors |-> <<>> ])
           ELSE ScannerPreflight(ns, es, Tail(rest))

StartPatch == [ status |-> "success", timestamp |-> Now ]

EndPatch(previousResult) ==
  [ status    |-> "success",
    timestamp |-> Now,
    response  |-> Some([ message        |-> "Workflow completed successfully",
                         previousResult |-> previousResult ]) ]

RunningPatch ==
  [ status |-> "running", response |-> Undefined, error |-> Undefined, timestamp |-> Now ]

SuccessPatch(node, response) ==
  [ status        |-> "success",
    response      |-> Some(response),
    inputs        |-> Some(OrElse(node.data.inputs, EmptyObject)),
    executionTime |-> Some("ms"),
    timestamp     |-> Now ]

FailedPatch(message) ==
  [ status |-> "failed", error |-> Some(message), timestamp |-> Now ]

\* an executor that never updates previousResult
KeepPreviousResult(previousResult, response) == previousResult

\* previousResult = response.data
NextPreviousResult(previousResult, response) == Some(response.data)

\* the arguments of apiService.executeNode for the node at order[i]
PortCall(r, snapshot, nodeId) ==
  LET node == FindNode(snapshot, nodeId)[1]
  IN  [ run      |-> r,
        nodeId   |-> nodeId,
        endpoint |-> OrElse(node.data.apiEndpoint, ""),
        payload  |-> OrElse(node.data.inputs, EmptyObject) ]

RECURSIVE Loop(_, _, _, _, _)
\* the for loop over executionOrder from position i, up to its next await of
\* the port (awaiting, the node at i marked running) or to its end
Loop(ns, snapshot, order, i, previousResult) ==
  IF i > Len(order)
  THEN [ nodes |-> ns, i |-> i, awaiting |-> FALSE, previousResult |-> previousResult ]
  ELSE LET nodeId == order[i]
           node == FindNode(snapshot, nodeId)
       IN  IF node = Undefined
           THEN Loop(ns, snapshot, order, i + 1, previousResult)
           ELSE IF node[1].data.type = "start"
           THEN Loop(updateNodeData(ns, nodeId, StartPatch),
                     snapshot, order, i + 1, previousResult)
           ELSE IF node[1].data.type = "end"
           THEN Loop(updateNodeData(ns, nodeId, EndPatch(previousResult)),
                     snapshot, order, i + 1, previousResult)
           ELSE [ nodes |-> updateNodeData(ns, nodeId, RunningPatch),
                  i |-> i, awaiting |-> TRUE, previousResult |-> previousResult ]

\* a try block that goes on to the next node without the write-back
AfterSuccessUnmarked(ns, snapshot, order, i, previousResult, response) ==
  Loop(ns, snapshot, order, i + 1, NextPreviousResult(previousResult, response))

\* the try block after the port returned `response` for the node at i: the
\* write-back, then the loop goes on
AfterSuccess(ns, snapshot, order, i, previousResult, response) ==
  Loop(updateNodeData(ns, order[i], SuccessPatch(FindNode(snapshot, order[i])[1], response)),
       snapshot, order, i + 1, NextPreviousResult(previousResult, response))

\* a catch block without the break: the loop goes on after the failed node
AfterFailureContinue(ns, snapshot, order, i, previousResult, message) ==
  Loop(updateNodeData(ns, order[i], FailedPatch(message)),
       snapshot, order, i + 1, previousResult)

\* the catch block after the port threw for the node at i: the write-back, then break
AfterFailure(ns, snapshot, order, i, previousResult, message) ==
  [ nodes |-> updateNodeData(ns, order[i], FailedPatch(message)),
    i |-> i, awaiting |-> FALSE, previousResult |-> previousResult ]

\* an executor that never clears the flag
FlagKept(flag, awaiting) == flag

\* isExecuting once the invocation yields: set({ isExecuting: false }) after the loop
FlagAfter(flag, awaiting) == IF awaiting THEN flag ELSE FALSE

\* the store and the invocation r once the loop yields in state `at`
Yield(r, snapshot, order, at, flag, halted) ==
  /\ nodes' = at.nodes
  /\ isExecuting' = FlagAfter(flag, at.awaiting)
  /\ runs' = [ runs EXCEPT ![r] =
                 [ pc    |-> IF at.awaiting THEN "awaiting"
                             ELSE IF halted THEN "halted" ELSE "completed",
                   nodes |-> IF at.awaiting THEN snapshot ELSE <<>>,
                   order |-> order,
                   i     |-> at.i,
                   previousResult |-> IF at.awaiting THEN at.previousResult ELSE Undefined ] ]
  /\ portLog' = IF at.awaiting
                THEN Append(portLog, PortCall(r, snapshot, order[at.i]))
                ELSE portLog

\* Sidebar: const canExecute = nodes.length > 0 && !isExecuting (the Run button)
canExecute == Len(nodes) > 0 /\ ~isExecuting

\* the invocation a new call of executeWorkflow becomes
FreeRun(r) == runs[r].pc = "unused" /\ \A q \in RunIds : q < r => runs[q].pc # "unused"

\* a click on Run: executeWorkflow up to its first await
executeWorkflow ==
  /\ canExecute
  /\ LET validation == validateWorkflow(nodes, edges)
         preflight == ScannerPreflight(nodes, edges, nodes)
         scheduled == getExecutionOrder(nodes, edges)
     IN  IF ~PassesValidation(validation)
         THEN /\ lastAlert' = ValidationAlert(validation.errors)
              /\ UNCHANGED <<nodes, edges, isExecuting, executionOrder, runs, portLog, fnOut, storage>>
         ELSE IF preflight # Undefined
         THEN /\ lastAlert' = preflight[1]
              /\ UNCHANGED <<nodes, edges, isExecuting, executionOrder, runs, portLog, fnOut, storage>>
         ELSE \E r \in RunIds :
                /\ FreeRun(r)
                /\ IF scheduled.threw
                   THEN /\ runs' = [ runs EXCEPT ![r] = [ UnusedRun EXCEPT !.pc = "threw" ] ]
                        /\ UNCHANGED <<nodes, edges, isExecuting, executionOrder,
                                       portLog, lastAlert, fnOut, storage>>
                   ELSE /\ executionOrder' = scheduled.order
                        /\ Yield(r, nodes, scheduled.order,
                                 Loop(nodes, nodes, scheduled.order, 1, Undefined),
                                 TRUE, FALSE)
                        /\ UNCHANGED <<edges, lastAlert, fnOut, storage>>

\* apiService.executeNode settles for invocation r, which resumes up to its next await
portReturn(r) ==
  /\ runs[r].pc = "awaiting"
  /\ LET run == runs[r]
         call == PortCall(r, run.nodes, run.order[run.i])
     IN  IF Recognized(call.endpoint)
         THEN Yield(r, run.nodes, run.order,
                    AfterSuccess(nodes, run.nodes, run.order, run.i, run.previousResult,
                                 ApiResponse(call.endpoint, call.payload, call.nodeId)),
                    isExecuting, FALSE)
         ELSE Yield(r, run.nodes, run.order,
                    AfterFailure(nodes, run.nodes, run.order, run.i, run.previousResult,
                                 EndpointNotFound(call.endpoint)),
                    isExecuting, TRUE)
  /\ UNCHANGED <<edges, executionOrder, lastAlert, fnOut, storage>>

\* a click on Reset
resetWorkflow ==
  /\ nodes' = ResetNodes(nodes)
  /\ isExecuting' = FALSE
  /\ UNCHANGED <<edges, executionOrder, runs, portLog, lastAlert, fnOut, storage>>

-----------------------------------------------------------------------------
(* The connection policy: onConnect *)

\* reactflow's addEdge: the connection appended as an edge, unless an edge
\* of the same source and target is in the list already
addEdge(connection, es) ==
  IF \E k \in 1..Len(es) : es[k].source = connection.source /\ es[k].target = connection.target
  THEN es
  ELSE Append(es, MkEdge(connection.source, connection.target))

ConnectAlert(text) == [ text |-> text, errors |-> <<>> ]

\* a policy that never finds a Scanner taken
ScannerNeverTaken(es, connection) == FALSE

\* edges.filter(e => e.target === connection.target).length > 0
ScannerTaken(es, connection) == Len(IncomingEdges(es, connection.target)) > 0

\* a policy without the rule of the Card Capture
onConnectAlertNoFanOutRule(ns, es, connection) ==
  LET targetKind == KindOf(ns, connection.target)
      sourceKind == KindOf(ns, connection.source)
  IN  IF targetKind = Some("scanner") /\ sourceKind # Some("cardCapture")
      THEN Some("Scanner node must connect immediately after Card Capture node only!")
      ELSE IF targetKind = Some("scanner") /\ ScannerTaken(es, connection)
      THEN Some("Scanner already has an incoming connection")
      ELSE Undefined

\* the alert onConnect returns with, absent when it lets the connection in
onConnectAlert(ns, es, connection) ==
  LET targetKind == KindOf(ns, connection.target)
      sourceKind == KindOf(ns, connection.source)
      existingScannerConnection ==
        SeqFind(es, [ k \in 1..Len(es) |->
                        /\ es[k].source = connection.source
                        /\ KindOf(ns, es[k].target) = Some("scanner") ])
  IN  IF targetKind = Some("scanner") /\ sourceKind # Some("cardCapture")
      THEN Some("Scanner node must connect immediately after Card Capture node only!")
      ELSE IF targetKind = Some("scanner") /\ ScannerTaken(es, connection)
      THEN Some("Scanner already has an incoming connection")
      ELSE IF /\ sourceKind = Some("cardCapture")
              /\ existingScannerConnection # Undefined
              /\ connection.target # existingScannerConnection[1].target
      THEN Some("Card Capture can only connect to one Scanner node")
      ELSE Undefined

\* the user draws a connection between two handles
onConnect(connection) ==
  /\ Len(edges) < MaxEdges
  /\ LET refusal == onConnectAlert(nodes, edges, connection)
     IN  IF refusal # Undefined
         THEN lastAlert' = ConnectAlert(refusal[1]) /\ UNCHANGED edges
         ELSE edges' = addEdge(connection, edges) /\ UNCHANGED lastAlert
  /\ UNCHANGED <<nodes, isExecuting, executionOrder, runs, portLog, fnOut, storage>>

-----------------------------------------------------------------------------
(* Graphs the store can hold: built from the Sidebar's node templates and     *)
(* edited in the ConfigPanel, or put there by importWorkflow / loadWorkflow.  *)

\* inputs as the Sidebar's defaultMultipartInput, of which the port reads the
\* token; each node is given a token of its own, as an edit of its inputs does
InputsOf(token) == Some({ <<"token", token>> })

\* Sidebar: nodeTemplates, the label and apiEndpoint of each kind
TemplateLabel(kind) ==
  CASE kind = "start"       -> "Start"
    [] kind = "liveness"    -> "Liveness Check"
    [] kind = "cardCapture" -> "Card Capture"
    [] kind = "scanner"     -> "Scanner"
    [] kind = "end"         -> "End"

TemplateEndpoint(kind) ==
  CASE kind = "start"       -> Undefined
    [] kind = "liveness"    -> Some("/jdmscan/liveness")
    [] kind = "cardCapture" -> Some("/ml/document")
    [] kind = "scanner"     -> Some("/jdmscan/scanner")
    [] kind = "end"         -> Undefined

TemplateNode(id, kind) ==
  MkNode(id, kind, TemplateLabel(kind), TemplateEndpoint(kind), InputsOf(id))

\* the templates, and a Card Capture whose endpoint was edited to the port's own
NodeChoices ==
  { [ kind |-> k, apiEndpoint |-> TemplateEndpoint(k) ] : k \in Kinds }
  \cup { [ kind |-> "cardCapture", apiEndpoint |-> Some("/jdmscan/card-capture") ] }

ChoiceNode(id, c) == MkNode(id, c.kind, TemplateLabel(c.kind), c.apiEndpoint, InputsOf(id))

\* the edge list of a sequence of <<source, target>> pairs
EdgeList(q) == [ i \in 1..Len(q) |-> MkEdge(q[i][1], q[i][2]) ]

\* the pairs of two different nodes of 1..n, and a list of them that names
\* each at most once, in one order
Wires(n) == { p \in (1..n) \X (1..n) : p[1] # p[2] }

Rank(n, pair) == (pair[1] - 1) * n + pair[2]

Increasing(n, q) == \A i \in 1..(Len(q) - 1) : Rank(n, q[i]) < Rank(n, q[i + 1])

NoFnOut == [ fn |-> "none", threw |-> FALSE, order |-> <<>>, isValid |-> FALSE, errors |-> <<>> ]

\* the store after construction, but for the graph
InitRest ==
  /\ isExecuting = FALSE
  /\ executionOrder = <<>>
  /\ runs = [ r \in RunIds |-> UnusedRun ]
  /\ portLog = <<>>
  /\ lastAlert = NoAlert
  /\ fnOut = NoFnOut

-----------------------------------------------------------------------------
(* SpecFn: the scheduler and the validator applied to bounded graphs *)

\* the four nodes of a scanner workflow, the Card Capture with the port's endpoint
ScanNodes ==
  << TemplateNode(1, "start"),
     ChoiceNode(2, [ kind |-> "cardCapture", apiEndpoint |-> Some("/jdmscan/card-capture") ]),
     TemplateNode(3, "scanner"), TemplateNode(4, "end") >>

\* ScanNodes under every wiring of at most MaxWires edges
ScanGraph ==
  /\ nodes = ScanNodes
  /\ \E m \in 0..MaxWires : \E q \in [1..m -> Wires(Len(ScanNodes))] :
       Increasing(Len(ScanNodes), q) /\ edges = EdgeList(q)

InitFn ==
  /\ \/ ScanGraph
     \/ \E n \in 0..MaxNodes :
          \/ /\ nodes = [ i \in 1..n |-> TemplateNode(i, "liveness") ]
             /\ \E m \in 0..MaxEdges : \E q \in [1..m -> (1..n) \X (1..n)] :
                  edges = EdgeList(q)
          \/ /\ \E m \in 0..MaxWires : \E q \in [1..m -> Wires(n)] :
                  Increasing(n, q) /\ edges = EdgeList(q)
             /\ nodes \in { [ i \in 1..n |-> TemplateNode(i, kinds[i]) ] : kinds \in [1..n -> Kinds] }
  /\ InitRest
  /\ storage = Undefined

applyScheduler ==
  /\ fnOut = NoFnOut
  /\ LET scheduled == getExecutionOrder(nodes, edges)
     IN  fnOut' = [ NoFnOut EXCEPT !.fn = "getExecutionOrder",
                                   !.threw = scheduled.threw,
                                   !.order = scheduled.order ]
  /\ UNCHANGED <<nodes, edges, isExecuting, executionOrder, runs, portLog, lastAlert, storage>>

applyValidator ==
  /\ fnOut = NoFnOut
  /\ LET validation == validateWorkflow(nodes, edges)
     IN  fnOut' = [ NoFnOut EXCEPT !.fn = "validateWorkflow",
                                   !.isValid = validation.isValid,
                                   !.errors = validation.errors ]
  /\ UNCHANGED <<nodes, edges, isExecuting, executionOrder, runs, portLog, lastAlert, storage>>

NextFn == applyScheduler \/ applyValidator

SpecFn == InitFn /\ [][NextFn]_vars

-----------------------------------------------------------------------------
(* SpecRun: runs of the executor, one after the other, on bounded graphs *)

\* Start -> Liveness Check -> Card Capture -> End, built from the templates
ChainNodes ==
  << TemplateNode(1, "start"), TemplateNode(2, "liveness"),
     TemplateNode(3, "cardCapture"), TemplateNode(4, "end") >>

ChainEdges == << MkEdge(1, 2), MkEdge(2, 3), MkEdge(3, 4) >>

\* Start -> Liveness Check -> End: the chain without its Card Capture
ShortNodes ==
  << TemplateNode(1, "start"), TemplateNode(2, "liveness"), TemplateNode(4, "end") >>

ShortEdges == << MkEdge(1, 2), MkEdge(2, 4) >>

\* the short chain after a run that completed, its Liveness Check's endpoint
\* cleared in the ConfigPanel since
StaleShortNodes ==
  LET order == << 1, 2, 4 >>
      first == Loop(ShortNodes, ShortNodes, order, 1, Undefined)
      done  == AfterSuccess(first.nodes, ShortNodes, order, 2, Undefined,
                            ApiResponse("/jdmscan/liveness", InputsOf(2)[1], 2))
  IN  updateNodeData(done.nodes, 2, [ apiEndpoint |-> Some("") ])

InitRun ==
  /\ \/ \E n \in 0..MaxNodes :
          /\ \E m \in 0..MaxWires : \E q \in [1..m -> Wires(n)] :
               Increasing(n, q) /\ edges = EdgeList(q)
          /\ nodes \in { [ i \in 1..n |-> ChoiceNode(i, c[i]) ] : c \in [1..n -> NodeChoices] }
     \/ /\ nodes = ChainNodes
        /\ edges = ChainEdges
     \/ /\ nodes = StaleShortNodes
        /\ edges = ShortEdges
     \/ ScanGraph
  /\ InitRest
  /\ storage = Undefined

NextRun ==
  \/ executeWorkflow
  \/ \E r \in RunIds : portReturn(r)

SpecRun == InitRun /\ [][NextRun]_vars

-----------------------------------------------------------------------------
(* Graph notions the claims are stated with *)

EdgePairs(es) == { <<es[i].source, es[i].target>> : i \in 1..Len(es) }

RECURSIVE Closure(_, _)
\* the ids reachable from the set S along pairs of E (S included)
Closure(E, S) ==
  LET S2 == S \cup { p[2] : p \in { e \in E : e[1] \in S } }
  IN  IF S2 = S THEN S ELSE Closure(E, S2)

\* the ids reachable from id along at least one edge
Descendants(es, id) ==
  Closure(EdgePairs(es), { p[2] : p \in { e \in EdgePairs(es) : e[1] = id } })

Acyclic(ns, es) == \A id \in NodeIds(ns) : id \notin Descendants(es, id)

EdgesWithinNodes(ns, es) ==
  \A p \in EdgePairs(es) : p[1] \in NodeIds(ns) /\ p[2] \in NodeIds(ns)

Positions(order, id) == { i \in 1..Len(order) : order[i] = id }

CountOfKind(ns, kind) == Cardinality({ i \in 1..Len(ns) : ns[i].data.type = kind })

\* the scanner at index i has exactly one incoming edge, from a Card Capture
WellWired(ns, es, i) ==
  LET incoming == { j \in 1..Len(es) : es[j].target = ns[i].id }
  IN  /\ Cardinality(incoming) = 1
      /\ \A j \in incoming :
           \E k \in 1..Len(ns) : ns[k].id = es[j].source /\ ns[k].data.type = "cardCapture"

-----------------------------------------------------------------------------
(* C1 *)

\* C1: for an acyclic graph whose edges all connect node ids, getExecutionOrder
\* returns every node id exactly once (as many ids as nodes) and puts the
\* source of every edge before its target.
C1_TopologicalOrder ==
  (fnOut.fn = "getExecutionOrder" /\ EdgesWithinNodes(nodes, edges) /\ Acyclic(nodes, edges))
  => /\ ~fnOut.threw
     /\ Len(fnOut.order) = Len(nodes)
     /\ \A id \in NodeIds(nodes) : Cardinality(Positions(fnOut.order, id)) = 1
     /\ \A p \in EdgePairs(edges) :
          \A i \in Positions(fnOut.order, p[1]) :
            \A j \in Positions(fnOut.order, p[2]) : i < j

\* the scheduler has ordered a DAG of MaxNodes nodes whose order differs from the stored one
C1_Witness ==
  /\ fnOut.fn = "getExecutionOrder"
  /\ Acyclic(nodes, edges)
  /\ Len(nodes) = MaxNodes
  /\ Cardinality(EdgePairs(edges)) >= 2
  /\ fnOut.order # [ i \in 1..Len(nodes) |-> nodes[i].id ]

-----------------------------------------------------------------------------
(* C5 *)

\* C5: validateWorkflow returns isValid = true exactly when its error list is
\* empty, and exactly when the graph has one Start, one End and every Scanner
\* has exactly one incoming edge whose source is a Card Capture; so a graph
\* with one Start, one End and no Scanner is valid.
C5_ValidIffWellFormed ==
  fnOut.fn = "validateWorkflow"
  => /\ fnOut.isValid <=> (fnOut.errors = <<>>)
     /\ fnOut.isValid <=>
          /\ CountOfKind(nodes, "start") = 1
          /\ CountOfKind(nodes, "end") = 1
          /\ \A i \in 1..Len(nodes) :
               nodes[i].data.type = "scanner" => WellWired(nodes, edges, i)
     /\ ( /\ CountOfKind(nodes, "start") = 1
          /\ CountOfKind(nodes, "end") = 1
          /\ CountOfKind(nodes, "scanner") = 0 ) => fnOut.isValid

\* the validator has accepted a graph that holds a Scanner
C5_Witness ==
  /\ fnOut.fn = "validateWorkflow"
  /\ fnOut.isValid
  /\ CountOfKind(nodes, "scanner") = 1

-----------------------------------------------------------------------------
(* C6 *)

\* the messages the claim expects for a count of Start (or End) nodes
CountMessages(count, none, many) ==
  IF count = 0 THEN <<none>> ELSE IF count >= 2 THEN <<many>> ELSE <<>>

\* the indices of the Scanners that are not well wired, in stored node order
BadScanners(ns, es) ==
  SeqFilter([ i \in 1..Len(ns) |-> i ],
            [ i \in 1..Len(ns) |-> ns[i].data.type = "scanner" /\ ~WellWired(ns, es, i) ])

\* C6: validateWorkflow evaluates every rule: its error list is the Start
\* message (zero, or more than one), then the End message, then one Scanner
\* message for each Scanner whose incoming-edge count is not 1 or whose single
\* source is no Card Capture, Scanners in stored node order.
C6_AllErrorsInOrder ==
  fnOut.fn = "validateWorkflow"
  => LET head == CountMessages(CountOfKind(nodes, "start"),
                                "Workflow must have exactly one start node",
                                "Workflow can only have one start node")
                 \o CountMessages(CountOfKind(nodes, "end"),
                                  "Workflow must have exactly one end node",
                                  "Workflow can only have one end node")
         bad  == BadScanners(nodes, edges)
     IN  /\ Len(fnOut.errors) = Len(head) + Len(bad)
         /\ \A k \in 1..Len(head) : fnOut.errors[k] = head[k]
         /\ \A k \in 1..Len(bad) :
              fnOut.errors[Len(head) + k] =
                IF Cardinality({ j \in 1..Len(edges) : edges[j].target = nodes[bad[k]].id }) # 1
                THEN "Scanner node must have exactly one incoming connection"
                ELSE "Scanner node must connect directly from Card Capture node"

\* the validator has reported a Start error, an End error and both Scanner errors at once
C6_Witness ==
  /\ fnOut.fn = "validateWorkflow"
  /\ CountOfKind(nodes, "start") = 0
  /\ CountOfKind(nodes, "end") = 0
  /\ Len(fnOut.errors) = 4
  /\ fnOut.errors[3] # fnOut.errors[4]

-----------------------------------------------------------------------------
(* SpecConnect: connections drawn on bounded graphs *)

\* a Card Capture, two Scanners and a Liveness Check
WiringNodes ==
  << TemplateNode(1, "cardCapture"), TemplateNode(2, "scanner"),
     TemplateNode(3, "scanner"), TemplateNode(4, "liveness") >>

Connections(ns) == { [ source |-> s, target |-> t ] : s \in NodeIds(ns), t \in NodeIds(ns) }

\* WiringNodes under every list of at most MaxWires edges
InitConnect ==
  /\ nodes = WiringNodes
  /\ \E m \in 0..MaxWires : \E q \in [1..m -> Wires(Len(WiringNodes))] :
       edges = EdgeList(q)
  /\ InitRest
  /\ storage = Undefined

NextConnect == \E connection \in Connections(nodes) : onConnect(connection)

SpecConnect == InitConnect /\ [][NextConnect]_vars

-----------------------------------------------------------------------------
(* SpecBuild: a wiring built on the canvas from no edges, by connections,     *)
(* removals of edges and edits of the nodes                                   *)

\* two Card Captures and two Scanners
BuildNodes ==
  << TemplateNode(1, "cardCapture"), TemplateNode(2, "scanner"),
     TemplateNode(3, "scanner"), TemplateNode(4, "cardCapture") >>

\* onEdgesChange with a change of type 'remove': the edge at k leaves the list
removeEdge(k) ==
  /\ k \in 1..Len(edges)
  /\ edges' = SeqFilter(edges, [ j \in 1..Len(edges) |-> j # k ])
  /\ UNCHANGED <<nodes, isExecuting, executionOrder, runs, portLog, lastAlert, fnOut, storage>>

\* what an edit hands to updateNodeData: a new label, and a kind
BuildPatches ==
  { [ label |-> "Renamed", type |-> kind ] : kind \in {"scanner", "cardCapture"} }

\* the nodes the user edits
BuildEdited == {1, 2}

\* a call of updateNodeData on the graph being built
editNode(nodeId, patch) ==
  /\ nodes' = updateNodeData(nodes, nodeId, patch)
  /\ UNCHANGED <<edges, isExecuting, executionOrder, runs, portLog, lastAlert, fnOut, storage>>

InitBuild ==
  /\ nodes = BuildNodes
  /\ edges = <<>>
  /\ InitRest
  /\ storage = Undefined

NextBuild ==
  \/ \E connection \in Connections(nodes) : onConnect(connection)
  \/ \E k \in 1..MaxEdges : removeEdge(k)
  \/ \E nodeId \in BuildEdited, patch \in BuildPatches : editNode(nodeId, patch)

SpecBuild == InitBuild /\ [][NextBuild]_vars

-----------------------------------------------------------------------------
(* Documents: exportWorkflow and importWorkflow.  A text is a record: whether *)
(* JSON.parse accepts it (wellFormed) and the value it parses to, an object   *)
(* with optional workflowName, nodes and edges.  A node of the labeled format *)
(* is an optional value too: an element of the list that is null is absent.   *)

\* the text of a value with these three keys
JsonOf(workflowName, docNodes, docEdges) ==
  [ wellFormed |-> TRUE,
    value |-> [ workflowName |-> workflowName, nodes |-> docNodes, edges |-> docEdges ] ]

\* JSON.parse throws on the text
NotJson ==
  [ wellFormed |-> FALSE,
    value |-> [ workflowName |-> Undefined, nodes |-> Undefined, edges |-> Undefined ] ]

\* x || null for a string x: the empty string is falsy
OrNull(x) == IF x = Undefined \/ x = Some("") THEN Undefined ELSE x

\* exportWorkflow: node.data.type === 'start' ? 'Start' : ...
ExportType(kind) ==
  CASE kind = "start"       -> "Start"
    [] kind = "end"         -> "End"
    [] kind = "liveness"    -> "Liveness Check"
    [] kind = "cardCapture" -> "Card Capture"
    [] kind = "scanner"     -> "Scanner"
    [] OTHER                -> kind

\* importWorkflow: typeMapping[node.type] || node.type
ImportType(type) ==
  CASE type = "Start"          -> "start"
    [] type = "End"            -> "end"
    [] type = "Liveness Check" -> "liveness"
    [] type = "Card Capture"   -> "cardCapture"
    [] type = "Scanner"        -> "scanner"
    [] OTHER                   -> type

\* edges.filter(e => e.source === node.id).map(e => e.target)
ConnectionsOf(es, id) ==
  LET out == SeqFilter(es, [ k \in 1..Len(es) |-> es[k].source = id ])
  IN  [ k \in 1..Len(out) |-> out[k].target ]

\* exportWorkflow: a node of the exported document
ExportedNode(node, es) ==
  [ id          |-> node.id,
    type        |-> ExportType(node.data.type),
    apiEndpoint |-> node.data.apiEndpoint,
    position    |-> Some(node.position),
    inputs      |-> Some(OrElse(node.data.inputs, EmptyObject)),
    outputs     |-> Some(OrElse(node.data.outputs, EmptyObject)),
    connections |-> Some(ConnectionsOf(es, node.id)) ]

\* the text exportWorkflow returns
exportWorkflow(ns, es) ==
  [ wellFormed |-> TRUE,
    value |-> [ workflowName |-> Some("KYC_Flow"),
                nodes |-> Some([ i \in 1..Len(ns) |-> Some(ExportedNode(ns[i], es)) ]),
                edges |-> Undefined ] ]

\* importWorkflow: a node of the labeled format made a node of the store
ImportedNode(node) ==
  [ id       |-> node.id,
    position |-> OrElse(node.position, <<0, 0>>),
    data     |-> [ id            |-> node.id,
                   type          |-> ImportType(node.type),
                   label         |-> node.type,
                   apiEndpoint   |-> OrNull(node.apiEndpoint),
                   inputs        |-> Some(OrElse(node.inputs, EmptyObject)),
                   outputs       |-> Some(OrElse(node.outputs, EmptyObject)),
                   status        |-> "idle",
                   response      |-> Undefined,
                   error         |-> Undefined,
                   executionTime |-> Undefined,
                   timestamp     |-> Undefined ] ]

RECURSIVE ImportedEdges(_)
\* importWorkflow: one edge for every connection of every node, in order
ImportedEdges(docNodes) ==
  IF docNodes = <<>> THEN <<>>
  ELSE LET node == Head(docNodes)[1]
           connections == OrElse(node.connections, <<>>)
       IN  [ k \in 1..Len(connections) |-> MkEdge(node.id, connections[k]) ]
           \o ImportedEdges(Tail(docNodes))

ImportFailed ==
  [ ok |-> FALSE, nodes |-> <<>>, edges |-> <<>>,
    alert |-> ConnectAlert("Failed to import workflow. Please check the JSON format.") ]

\* importWorkflow, had it put in place the nodes converted before the failure
ImportOutcomePartial(text, alertBefore) ==
  IF ~text.wellFormed THEN ImportFailed
  ELSE LET data == text.value
       IN  IF OrNull(data.workflowName) # Undefined /\ data.nodes # Undefined
           THEN LET good == SeqFilter(data.nodes[1],
                                      [ i \in 1..Len(data.nodes[1]) |-> data.nodes[1][i] # Undefined ])
                IN  [ ok    |-> TRUE,
                      nodes |-> [ i \in 1..Len(good) |-> ImportedNode(good[i][1]) ],
                      edges |-> ImportedEdges(good),
                      alert |-> ConnectAlert("Workflow imported successfully!") ]
           ELSE IF data.nodes # Undefined /\ data.edges # Undefined
           THEN [ ok |-> TRUE, nodes |-> data.nodes[1], edges |-> data.edges[1],
                  alert |-> alertBefore ]
           ELSE ImportFailed

\* importWorkflow up to its set(...): the graph it puts in place and the
\* alert it shows, or the failure its catch block reports
ImportOutcome(text, alertBefore) ==
  IF ~text.wellFormed THEN ImportFailed
  ELSE LET data == text.value
       IN  IF OrNull(data.workflowName) # Undefined /\ data.nodes # Undefined
           THEN IF \E i \in 1..Len(data.nodes[1]) : data.nodes[1][i] = Undefined
                THEN ImportFailed
                ELSE [ ok    |-> TRUE,
                       nodes |-> [ i \in 1..Len(data.nodes[1]) |->
                                     ImportedNode(data.nodes[1][i][1]) ],
                       edges |-> ImportedEdges(data.nodes[1]),
                       alert |-> ConnectAlert("Workflow imported successfully!") ]
           ELSE IF data.nodes # Undefined /\ data.edges # Undefined
           THEN [ ok |-> TRUE, nodes |-> data.nodes[1], edges |-> data.edges[1],
                  alert |-> alertBefore ]
           ELSE ImportFailed

\* the user picks a file in the Import dialog
importWorkflow(text) ==
  /\ LET outcome == ImportOutcome(text, lastAlert)
     IN  /\ lastAlert' = outcome.alert
         /\ IF outcome.ok
            THEN nodes' = outcome.nodes /\ edges' = outcome.edges
            ELSE UNCHANGED <<nodes, edges>>
  /\ UNCHANGED <<isExecuting, executionOrder, runs, portLog, fnOut, storage>>

-----------------------------------------------------------------------------
(* Spec: the operations a user can trigger, in any interleaving with the     *)
(* port's returns, on workflows loaded from localStorage                     *)

\* saveWorkflow, had it written the node's data as they are
SavedNodeAsIs(node) ==
  [ id       |-> node.id,
    position |-> node.position,
    data     |-> node.data ]

\* saveWorkflow: a node as written into the saved document
SavedNode(node) ==
  [ id       |-> node.id,
    position |-> node.position,
    data     |-> [ id            |-> node.data.id,
                   type          |-> node.data.type,
                   label         |-> node.data.label,
                   apiEndpoint   |-> node.data.apiEndpoint,
                   inputs        |-> Some(OrElse(node.data.inputs, EmptyObject)),
                   outputs       |-> Some(OrElse(node.data.outputs, EmptyObject)),
                   status        |-> "idle",
                   response      |-> Undefined,
                   error         |-> Undefined,
                   executionTime |-> Undefined,
                   timestamp     |-> Undefined ] ]

\* saveWorkflow: the document of a graph
SavedDocument(ns, es) ==
  JsonOf(Undefined, Some([ i \in 1..Len(ns) |-> SavedNode(ns[i]) ]), Some(es))

\* a click on Save: the document of the graph goes to localStorage
saveWorkflow ==
  /\ storage' = Some(SavedDocument(nodes, edges))
  /\ lastAlert' = ConnectAlert("Workflow saved successfully!")
  /\ UNCHANGED <<nodes, edges, isExecuting, executionOrder, runs, portLog, fnOut>>

\* what localStorage can hold under 'idmscan-workflow'
Documents ==
  { SavedDocument(ShortNodes, ShortEdges),
    SavedDocument(ChainNodes, ChainEdges) }

\* loadWorkflow up to its set(...): the graph it puts in place, if the slot
\* holds a text that parses to a value with nodes and edges
LoadOutcome(slot) ==
  IF slot = Undefined \/ ~slot[1].wellFormed
  THEN [ ok |-> FALSE, nodes |-> <<>>, edges |-> <<>> ]
  ELSE LET workflowData == slot[1].value
       IN  IF workflowData.nodes # Undefined /\ workflowData.edges # Undefined
           THEN [ ok |-> TRUE, nodes |-> workflowData.nodes[1], edges |-> workflowData.edges[1] ]
           ELSE [ ok |-> FALSE, nodes |-> <<>>, edges |-> <<>> ]

\* App on start, or a click on Load: the saved document replaces the graph
loadWorkflow ==
  /\ LET outcome == LoadOutcome(storage)
     IN  IF outcome.ok
         THEN nodes' = outcome.nodes /\ edges' = outcome.edges
         ELSE UNCHANGED <<nodes, edges>>
  /\ UNCHANGED <<isExecuting, executionOrder, runs, portLog, lastAlert, fnOut, storage>>

\* the token an edit of a node's inputs puts in place, and the node edited
EditedInputs == InputsOf(0)

EditedNodes == {2}

\* CustomNode: handleSaveInputs, the inputs editor of a node that is not Start or End
saveInputs(nodeId) ==
  /\ KindOf(nodes, nodeId) \notin {Undefined, Some("start"), Some("end")}
  /\ nodes' = updateNodeData(nodes, nodeId, [ inputs |-> EditedInputs ])
  /\ UNCHANGED <<edges, isExecuting, executionOrder, runs, portLog, lastAlert, fnOut, storage>>

\* CustomNode: a Start has no target handle and an End no source handle
Handles(ns) ==
  { c \in Connections(ns) :
      KindOf(ns, c.source) # Some("end") /\ KindOf(ns, c.target) # Some("start") }

\* a workflow written by hand in the labeled format: one Card Capture wired to
\* two Scanners
FanOutNodes ==
  << TemplateNode(1, "start"),
     ChoiceNode(3, [ kind |-> "cardCapture", apiEndpoint |-> Some("/jdmscan/card-capture") ]),
     TemplateNode(5, "scanner"), TemplateNode(6, "scanner"), TemplateNode(4, "end") >>

FanOutEdges == << MkEdge(1, 3), MkEdge(3, 5), MkEdge(3, 6) >>

\* an edge left behind by a node that is no longer there
DanglingEdge == MkEdge(0, 2)

\* the files the user has at hand for Import: the fan-out in the labeled
\* format, and in the raw format a chain with an edge from no node
ImportFiles ==
  { exportWorkflow(FanOutNodes, FanOutEdges),
    JsonOf(Undefined, Some(ShortNodes), Some(ShortEdges \o << DanglingEdge >>)) }

\* the store after construction
Init ==
  /\ nodes = <<>>
  /\ edges = <<>>
  /\ InitRest
  /\ storage \in { Some(saved) : saved \in Documents }

Next ==
  \/ loadWorkflow
  \/ executeWorkflow
  \/ \E r \in RunIds : portReturn(r)
  \/ resetWorkflow
  \/ \E connection \in Handles(nodes) : onConnect(connection)
  \/ \E nodeId \in NodeIds(nodes) \cap EditedNodes : saveInputs(nodeId)
  \/ \E text \in ImportFiles : importWorkflow(text)

Spec == Init /\ [][Next]_vars

-----------------------------------------------------------------------------
(* LiveSpec: loads, runs and resets; every call of the port settles (the     *)
(* simulation resolves or rejects after its delay)                           *)

NextLive ==
  \/ loadWorkflow
  \/ executeWorkflow
  \/ \E r \in RunIds : portReturn(r)
  \/ resetWorkflow

\* portReturn(r) can be taken exactly when invocation r awaits the port, and
\* taking it moves r on
PortReturnEnabled ==
  \A r \in RunIds : (runs[r].pc = "awaiting") <=> ENABLED <<portReturn(r)>>_vars

\* WF_vars(portReturn(r)), the enabling condition written as in PortReturnEnabled
PortSettles(r) == []<>(runs[r].pc # "awaiting") \/ []<><<portReturn(r)>>_vars

LiveSpec ==
  /\ Init
  /\ [][NextLive]_vars
  /\ \A r \in RunIds : PortSettles(r)

-----------------------------------------------------------------------------
(* SpecUpdate: updateNodeData applied once to bounded node lists *)

\* patches a caller can hand to updateNodeData: the ConfigPanel's, the
\* executor's, the inputs editor's, and patches that carry id or type
Patches ==
  { [ label |-> "Renamed", apiEndpoint |-> Some("/jdmscan/liveness") ],
    [ status |-> "failed", error |-> Some("message"), timestamp |-> Now ],
    [ inputs |-> EditedInputs ],
    [ id |-> 0 ],
    [ type |-> "end" ],
    [ id |-> 0, type |-> "end", label |-> "Renamed" ] }

\* the ids handed to updateNodeData: those of the nodes and one of no node
UpdateIds == 1..(MaxNodes + 1)

\* two nodes of one id, as an imported document can hold them
TwinNodes == << TemplateNode(1, "start"), TemplateNode(1, "liveness"), TemplateNode(2, "end") >>

InitUpdate ==
  /\ \/ \E n \in 0..MaxNodes :
          nodes \in { [ i \in 1..n |-> TemplateNode(i, kinds[i]) ] : kinds \in [1..n -> Kinds] }
     \/ nodes = TwinNodes
  /\ edges = <<>>
  /\ InitRest
  /\ storage = Undefined

\* a call of the store's updateNodeData(nodeId, patch)
storeUpdate(nodeId, patch) ==
  /\ fnOut = NoFnOut
  /\ nodes' = updateNodeData(nodes, nodeId, patch)
  /\ fnOut' = [ NoFnOut EXCEPT !.fn = "updateNodeData" ]
  /\ UNCHANGED <<edges, isExecuting, executionOrder, runs, portLog, lastAlert, storage>>

NextUpdate == \E nodeId \in UpdateIds, patch \in Patches : storeUpdate(nodeId, patch)

SpecUpdate == InitUpdate /\ [][NextUpdate]_vars

-----------------------------------------------------------------------------
(* SpecPorting: documents exported, imported, saved and loaded *)

\* the nodes laid out on the canvas, each at a place of its own
Placed(ns) == [ i \in 1..Len(ns) |-> [ ns[i] EXCEPT !.position = <<20 * i, 0>> ] ]

\* node i of n: a Start first, an End last, and between them Liveness Checks,
\* as the template has them or with the endpoint cleared in the ConfigPanel
PortChoices(i, n) ==
  IF i = 1 THEN { [ kind |-> "start", apiEndpoint |-> TemplateEndpoint("start") ] }
  ELSE IF i = n THEN { [ kind |-> "end", apiEndpoint |-> TemplateEndpoint("end") ] }
  ELSE { [ kind |-> "liveness", apiEndpoint |-> TemplateEndpoint("liveness") ],
         [ kind |-> "liveness", apiEndpoint |-> Some("") ] }

\* the chain after the run that halts at its Card Capture
HaltedChainNodes ==
  LET order == << 1, 2, 3, 4 >>
      first == Loop(ChainNodes, ChainNodes, order, 1, Undefined)
      second == AfterSuccess(first.nodes, ChainNodes, order, 2, Undefined,
                             ApiResponse("/jdmscan/liveness", InputsOf(2)[1], 2))
  IN  AfterFailure(second.nodes, ChainNodes, order, 3, second.previousResult,
                   EndpointNotFound("/ml/document")).nodes

\* localStorage without a document to load: nothing saved yet, a text that
\* does not parse, or a value that lacks nodes or edges
BadSlots ==
  { Undefined,
    Some(NotJson),
    Some(JsonOf(Undefined, Undefined, Undefined)),
    Some(JsonOf(Undefined, Some(ShortNodes), Undefined)),
    Some(JsonOf(Undefined, Undefined, Some(ShortEdges))) }

InitPorting ==
  /\ \/ \E n \in 0..MaxNodes :
          /\ \E m \in 0..MaxWires : \E q \in [1..m -> Wires(n)] :
               Increasing(n, q) /\ edges = EdgeList(q)
          /\ \E c \in [1..n -> UNION { PortChoices(i, n) : i \in 1..n }] :
               /\ \A i \in 1..n : c[i] \in PortChoices(i, n)
               /\ nodes = Placed([ i \in 1..n |-> ChoiceNode(i, c[i]) ])
     \/ /\ \E m \in 0..MaxWires : \E q \in [1..m -> Wires(Len(ScanNodes))] :
             Increasing(Len(ScanNodes), q) /\ edges = EdgeList(q)
        /\ nodes = Placed(ScanNodes)
     \/ /\ nodes = Placed(HaltedChainNodes)
        /\ edges = ChainEdges
     \/ /\ nodes = Placed(ShortNodes)
        /\ edges = ShortEdges \o << DanglingEdge >>
  /\ InitRest
  /\ storage \in BadSlots

\* an exported chain whose third node was replaced by null
BrokenExport ==
  LET good == exportWorkflow(ChainNodes, ChainEdges).value.nodes[1]
  IN  JsonOf(Some("KYC_Flow"),
             Some([ i \in 1..Len(good) |-> IF i = 3 THEN Undefined ELSE good[i] ]),
             Undefined)

\* texts of neither format, and a labeled document that breaks in conversion
BadTexts ==
  { NotJson,
    JsonOf(Undefined, Undefined, Undefined),
    JsonOf(Undefined, Some(ShortNodes), Undefined),
    JsonOf(Undefined, Undefined, Some(ShortEdges)),
    JsonOf(Some("KYC_Flow"), Undefined, Some(ShortEdges)),
    JsonOf(Some(""), Some(<<>>), Undefined),
    BrokenExport }

\* a document of the raw format
RawText == JsonOf(Undefined, Some(ShortNodes), Some(ShortEdges))

\* documents of the two formats in which two nodes have the id 1
TwinLabeledText == exportWorkflow(TwinNodes, <<>>)

TwinRawText == JsonOf(Undefined, Some(TwinNodes), Some(<<>>))

\* the files the user can pick: the one Export just wrote among them
ImportTexts(ns, es) == BadTexts \cup { RawText, exportWorkflow(ns, es) }

NextPorting ==
  \/ \E text \in ImportTexts(nodes, edges) : importWorkflow(text)
  \/ importWorkflow(TwinLabeledText)
  \/ importWorkflow(TwinRawText)
  \/ saveWorkflow
  \/ loadWorkflow

SpecPorting == InitPorting /\ [][NextPorting]_vars

-----------------------------------------------------------------------------
(* Runs, as the claims speak of them *)

\* the invocation r is the latest one
LatestRun(r) ==
  /\ runs[r].pc # "unused"
  /\ \A q \in RunIds : q > r => runs[q].pc = "unused"

\* the data of the node with this id in the store (ids are distinct here)
DataOf(id) == FindNode(nodes, id)[1].data

IsStep(id) == DataOf(id).type \notin {"start", "end"}

\* the positions of its order that invocation r has dealt with for good
Passed(r) ==
  IF runs[r].pc = "completed" THEN 1..Len(runs[r].order)
  ELSE IF runs[r].pc \in {"awaiting", "halted"} THEN 1..(runs[r].i - 1)
  ELSE {}

\* the calls invocation r made to the port
CallsOf(r) == SeqFilter(portLog, [ k \in 1..Len(portLog) |-> portLog[k].run = r ])

Max(S) == CHOOSE x \in S : \A y \in S : y <= x

StatusesOf(ns) == [ i \in 1..Len(ns) |-> ns[i].data.status ]

KindsOf(ns) == [ i \in 1..Len(ns) |-> ns[i].data.type ]

-----------------------------------------------------------------------------
(* C2 *)

\* C2: when the port fails for node X, X ends Failed with an error message,
\* the port is invoked for no node after X in the order, and the nodes that
\* succeeded before X keep Success and their response; on
\* Start -> A -> B -> End, all Idle, with A succeeding and B failing, the
\* final statuses are A Success, B Failed, End Idle.
C2_HaltOnFailure ==
  \A r \in RunIds :
    (LatestRun(r) /\ runs[r].pc = "halted")
    => LET order == runs[r].order
           i == runs[r].i
       IN  /\ i \in 1..Len(order)
           /\ DataOf(order[i]).status = "failed"
           /\ DataOf(order[i]).error # Undefined
           /\ \A k \in 1..Len(CallsOf(r)) :
                \E j \in 1..i : order[j] = CallsOf(r)[k].nodeId
           /\ CallsOf(r)[Len(CallsOf(r))].nodeId = order[i]
           /\ \A j \in 1..(i - 1) :
                IsStep(order[j])
                => /\ DataOf(order[j]).status = "success"
                   /\ DataOf(order[j]).response # Undefined
                   /\ DataOf(order[j]).response[1].nodeId = order[j]
           /\ (r = 1 /\ KindsOf(nodes) = KindsOf(ChainNodes) /\ edges = ChainEdges)
              => StatusesOf(nodes) = <<"success", "success", "failed", "idle">>

\* Start -> A -> B -> End has halted at B, after A succeeded
C2_Witness ==
  /\ edges = ChainEdges
  /\ KindsOf(nodes) = KindsOf(ChainNodes)
  /\ runs[1].pc = "halted"
  /\ runs[1].order[runs[1].i] = 3
  /\ nodes[2].data.status = "success"
  /\ nodes[3].data.error # Undefined
  /\ Len(portLog) = 2

-----------------------------------------------------------------------------
(* C3 *)

\* the End response the claim expects at position e of invocation r's order
ExpectedPreviousResult(r, e) ==
  LET before == { j \in 1..(e - 1) : IsStep(runs[r].order[j]) }
  IN  IF before = {} THEN Undefined
      ELSE Some(DataOf(runs[r].order[Max(before)]).response[1].data)

\* C3: when a run reaches the End node, End is Success with a completion
\* payload whose previousResult is the response data of the last node other
\* than Start/End that succeeded earlier in the run (null if none); on
\* Start -> A -> End with A succeeding all three end Success and
\* End's previousResult is A's response data.
C3_EndCarriesPreviousResult ==
  \A r \in RunIds :
    LatestRun(r)
    => /\ \A e \in Passed(r) :
            DataOf(runs[r].order[e]).type = "end"
            => /\ DataOf(runs[r].order[e]).status = "success"
               /\ DataOf(runs[r].order[e]).response # Undefined
               /\ DataOf(runs[r].order[e]).response[1] =
                    [ message |-> "Workflow completed successfully",
                      previousResult |-> ExpectedPreviousResult(r, e) ]
       /\ ( /\ runs[r].pc = "completed"
            /\ Len(nodes) = 3
            /\ nodes[1].data.type = "start" /\ IsStep(2) /\ nodes[3].data.type = "end"
            /\ edges = << MkEdge(1, 2), MkEdge(2, 3) >> )
          => /\ StatusesOf(nodes) = <<"success", "success", "success">>
             /\ nodes[3].data.response[1].previousResult
                  = Some(nodes[2].data.response[1].data)

\* Start -> A -> End has completed, A's port call having succeeded
C3_Witness ==
  /\ runs[1].pc = "completed"
  /\ Len(nodes) = 3
  /\ nodes[1].data.type = "start" /\ nodes[2].data.type = "liveness" /\ nodes[3].data.type = "end"
  /\ edges = << MkEdge(1, 2), MkEdge(2, 3) >>
  /\ nodes[3].data.status = "success"
  /\ nodes[3].data.response[1].previousResult # Undefined

-----------------------------------------------------------------------------
(* C4 *)

\* C4: if validateWorkflow reports the graph invalid, executeWorkflow makes
\* no port invocation and leaves the nodes, the edges, isExecuting and
\* executionOrder as they were.
C4_InvalidRunChangesNothing ==
  [][ (~validateWorkflow(nodes, edges).isValid /\ executeWorkflow)
      => UNCHANGED <<nodes, edges, isExecuting, executionOrder, runs, portLog>> ]_vars

\* executeWorkflow has turned down an invalid graph
C4_Witness ==
  /\ lastAlert.text = "Workflow validation failed: "
  /\ Len(lastAlert.errors) >= 2
  /\ Len(nodes) > 0
  /\ portLog = <<>>
  /\ ~isExecuting

-----------------------------------------------------------------------------
(* C7 *)

IsKind(id, kind) == KindOf(nodes, id) = Some(kind)

\* the edges of the store from source to a Scanner other than target
FeedsOtherScanner(source, target) ==
  \E k \in 1..Len(edges) :
    /\ edges[k].source = source
    /\ edges[k].target # target
    /\ IsKind(edges[k].target, "scanner")

HasIncoming(target) == \E k \in 1..Len(edges) : edges[k].target = target

\* C7: onConnect rejects, leaving nodes and edges unchanged, a connection
\* (a) into a Scanner from a node that is not a Card Capture, (b) into a
\* Scanner that already has an incoming edge, (c) out of a Card Capture that
\* already has an edge to a different Scanner; and it adds the edge of a
\* Card Capture -> Scanner connection when the Scanner has no incoming edge
\* and the Card Capture feeds no other Scanner.
C7_ConnectionPolicy ==
  [][ \A c \in Connections(nodes) :
        onConnect(c)
        => /\ ( \/ IsKind(c.target, "scanner") /\ ~IsKind(c.source, "cardCapture")
                \/ IsKind(c.target, "scanner") /\ HasIncoming(c.target)
                \/ IsKind(c.source, "cardCapture") /\ FeedsOtherScanner(c.source, c.target) )
              => UNCHANGED <<nodes, edges>>
           /\ ( /\ IsKind(c.source, "cardCapture")
                /\ IsKind(c.target, "scanner")
                /\ ~HasIncoming(c.target)
                /\ ~FeedsOtherScanner(c.source, c.target) )
              => /\ edges' = Append(edges, MkEdge(c.source, c.target))
                 /\ nodes' = nodes ]_vars

\* the Card Capture feeds one Scanner and was refused the other
C7_Witness ==
  /\ nodes = WiringNodes
  /\ lastAlert = ConnectAlert("Card Capture can only connect to one Scanner node")
  /\ \E k \in 1..Len(edges) : edges[k].source = 1 /\ edges[k].target = 2
  /\ ~HasIncoming(3)

-----------------------------------------------------------------------------
(* C8 *)

\* the step puts a loaded or an imported graph in place of the current one
IsLoad == loadWorkflow \/ \E text \in ImportFiles : importWorkflow(text)

\* C8: every status change of a node follows the state machine: a node that
\* is not Start or End goes idle -> running -> success or failed, a Start or
\* End goes idle -> success, and a node goes back to idle only through
\* resetWorkflow (the nodes a load puts in place are new nodes).
C8_StatusStateMachine ==
  [][ ~IsLoad
      => \A i \in 1..Len(nodes) :
           LET old == nodes[i].data.status
               new == nodes'[i].data.status
               kind == nodes[i].data.type
           IN  old # new
               => \/ new = "idle" /\ resetWorkflow
                  \/ kind \in {"start", "end"} /\ old = "idle" /\ new = "success"
                  \/ /\ kind \notin {"start", "end"}
                     /\ \/ old = "idle" /\ new = "running"
                        \/ old = "running" /\ new \in {"success", "failed"} ]_vars

-----------------------------------------------------------------------------
(* C9 *)

\* the invocations of executeWorkflow waiting for the port
InFlight == { r \in RunIds : runs[r].pc = "awaiting" }

\* C9: at most one call of the port is in flight at any moment, and no
\* second run starts before the current run has finished.
C9_OneRunAtATime == Cardinality(InFlight) <= 1

-----------------------------------------------------------------------------
(* C10 *)

\* C10: every run that passes validation eventually finishes, completed or
\* halted at a failing node, with isExecuting = false, provided each call of
\* the port eventually returns or fails.
C10_RunsFinish ==
  \A r \in RunIds :
    (runs[r].pc = "awaiting") ~> (runs[r].pc \in {"completed", "halted"} /\ ~isExecuting)

\* a run has halted at a failing node and left isExecuting false
C10_Witness ==
  /\ runs[1].pc = "halted"
  /\ runs[1].i \in 1..Len(runs[1].order)
  /\ runs[1].order[runs[1].i] \in NodeIds(nodes)
  /\ DataOf(runs[1].order[runs[1].i]).status = "failed"
  /\ ~isExecuting

-----------------------------------------------------------------------------
(* C11 *)

\* the fields of a node that resetWorkflow is to keep
Kept(node) ==
  << node.id, node.position, node.data.id, node.data.type, node.data.label,
     node.data.apiEndpoint, node.data.inputs, node.data.outputs >>

\* C11: after resetWorkflow, from any state, every node is idle with error,
\* response, executionTime and timestamp absent and isExecuting is false;
\* id, kind, label, apiEndpoint, inputs, outputs, position of every node
\* and the edges are unchanged; a second resetWorkflow changes nothing more.
C11_ResetFrame ==
  [][ resetWorkflow
      => /\ Len(nodes') = Len(nodes)
         /\ \A i \in 1..Len(nodes) :
              /\ nodes'[i].data.status = "idle"
              /\ nodes'[i].data.error = Undefined
              /\ nodes'[i].data.response = Undefined
              /\ nodes'[i].data.executionTime = Undefined
              /\ nodes'[i].data.timestamp = Undefined
              /\ Kept(nodes'[i]) = Kept(nodes[i])
         /\ isExecuting' = FALSE
         /\ edges' = edges
         /\ ResetNodes(nodes') = nodes' ]_vars

\* Reset was clicked while the first run awaited the port
C11_Witness ==
  /\ runs[1].pc = "awaiting"
  /\ runs[2].pc = "unused"
  /\ ~isExecuting
  /\ Len(nodes) = Len(ChainNodes)
  /\ \A i \in 1..Len(nodes) : nodes[i].data.status = "idle" /\ nodes[i].data.timestamp = Undefined

-----------------------------------------------------------------------------
(* C12 *)

\* C12: for any nodeId and any patch, a patch with id or type keys included,
\* updateNodeData leaves the data id and the kind of the target unchanged,
\* leaves every other node unchanged, and leaves all nodes unchanged when
\* nodeId is the id of no node.
C12_UpdateKeepsIdentity ==
  [][ \A nodeId \in UpdateIds, patch \in Patches :
        storeUpdate(nodeId, patch)
        => /\ Len(nodes') = Len(nodes)
           /\ \A i \in 1..Len(nodes) :
                IF nodes[i].id = nodeId
                THEN /\ nodes'[i].id = nodes[i].id
                     /\ nodes'[i].data.id = nodes[i].data.id
                     /\ nodes'[i].data.type = nodes[i].data.type
                ELSE nodes'[i] = nodes[i]
           /\ nodeId \notin NodeIds(nodes) => nodes' = nodes ]_vars

\* a Start took the label of a patch that also carried an id and a type
C12_Witness ==
  /\ fnOut.fn = "updateNodeData"
  /\ \E i \in 1..Len(nodes) :
       /\ nodes[i].data.label = "Renamed"
       /\ nodes[i].data.apiEndpoint = Undefined
       /\ nodes[i].data.type = "start"
       /\ nodes[i].data.id = nodes[i].id

-----------------------------------------------------------------------------
(* Documents, as the claims speak of them *)

\* what a node is, apart from its label and the trace of its last run; inputs
\* and outputs that were never set count as the empty object
NodeFacts(ns) ==
  { [ id          |-> ns[i].id,
      kind        |-> ns[i].data.type,
      apiEndpoint |-> ns[i].data.apiEndpoint,
      inputs      |-> OrElse(ns[i].data.inputs, EmptyObject),
      outputs     |-> OrElse(ns[i].data.outputs, EmptyObject),
      position    |-> ns[i].position ] : i \in 1..Len(ns) }

\* the step is an import of the document Export writes for the current graph
IsRoundTrip == importWorkflow(exportWorkflow(nodes, edges))

-----------------------------------------------------------------------------
(* C13 *)

\* C13: for a valid graph, importing the document exported from it gives a
\* graph with the same node ids, kinds, apiEndpoints, inputs, outputs and
\* positions and the same set of (source, target) edge pairs, and the export of
\* the imported graph has the same nodes and connections lists as the first.
C13_RoundTrip ==
  [][ (validateWorkflow(nodes, edges).isValid /\ IsRoundTrip)
      => /\ NodeFacts(nodes') = NodeFacts(nodes)
         /\ EdgePairs(edges') = EdgePairs(edges)
         /\ exportWorkflow(nodes', edges').value.nodes
              = exportWorkflow(nodes, edges).value.nodes ]_vars

\* C13, the two ways it fails, apart: the endpoints, and the edges
C13_EndpointsKept ==
  [][ (validateWorkflow(nodes, edges).isValid /\ IsRoundTrip)
      => \A i \in 1..Len(nodes) :
           nodes'[i].data.apiEndpoint = nodes[i].data.apiEndpoint ]_vars

C13_EdgesKept ==
  [][ (validateWorkflow(nodes, edges).isValid /\ IsRoundTrip)
      => EdgePairs(edges') = EdgePairs(edges) ]_vars

\* C13 where it holds: every edge leaves a node, and no endpoint is empty
C13_RoundTripOfClosedGraphs ==
  [][ ( /\ validateWorkflow(nodes, edges).isValid
        /\ \A k \in 1..Len(edges) : edges[k].source \in NodeIds(nodes)
        /\ \A i \in 1..Len(nodes) : nodes[i].data.apiEndpoint # Some("")
        /\ IsRoundTrip )
      => /\ NodeFacts(nodes') = NodeFacts(nodes)
         /\ EdgePairs(edges') = EdgePairs(edges)
         /\ exportWorkflow(nodes', edges').value.nodes
              = exportWorkflow(nodes, edges).value.nodes ]_vars

-----------------------------------------------------------------------------
(* C14 *)

\* C14: an import of a text that is not JSON, or of JSON of neither format, or
\* of a labeled document whose node list breaks partway through conversion, and
\* a load from a slot that is absent, does not parse or lacks nodes or edges,
\* leave nodes and edges exactly as they were.
C14_RejectedWhole ==
  [][ /\ (\E text \in BadTexts : importWorkflow(text)) => UNCHANGED <<nodes, edges>>
      /\ (storage \in BadSlots /\ loadWorkflow)        => UNCHANGED <<nodes, edges>>
    ]_vars

\* a graph that an import has just failed on, with nothing to load in the slot
C14_Witness ==
  /\ lastAlert = ImportFailed.alert
  /\ Len(nodes) = 4
  /\ \E i \in 1..Len(nodes) : nodes[i].data.status = "failed"
  /\ storage = Some(NotJson)

-----------------------------------------------------------------------------
(* C15 *)

\* what load makes of a graph that was saved
Restored(ns, loaded) ==
  /\ Len(loaded) = Len(ns)
  /\ \A i \in 1..Len(ns) :
       /\ loaded[i].id = ns[i].id
       /\ loaded[i].position = ns[i].position
       /\ loaded[i].data.id = ns[i].data.id
       /\ loaded[i].data.type = ns[i].data.type
       /\ loaded[i].data.label = ns[i].data.label
       /\ loaded[i].data.apiEndpoint = ns[i].data.apiEndpoint
       /\ OrElse(loaded[i].data.inputs, EmptyObject) = OrElse(ns[i].data.inputs, EmptyObject)
       /\ OrElse(loaded[i].data.outputs, EmptyObject) = OrElse(ns[i].data.outputs, EmptyObject)
       /\ loaded[i].data.status = "idle"
       /\ loaded[i].data.response = Undefined
       /\ loaded[i].data.error = Undefined
       /\ loaded[i].data.executionTime = Undefined
       /\ loaded[i].data.timestamp = Undefined

\* C15: a save leaves nodes and edges unchanged and stores a document whose
\* nodes are all Idle and whose edges are the current edges; a load of that
\* document puts in place the graph as it was at the save (ids, kinds, labels,
\* apiEndpoints, inputs, outputs, positions, edges), every node Idle and
\* without response, error, executionTime or timestamp.
C15_SaveThenLoad ==
  [][ /\ saveWorkflow =>
           /\ UNCHANGED <<nodes, edges>>
           /\ storage' # Undefined /\ storage'[1].wellFormed
           /\ storage'[1].value.edges = Some(edges)
           /\ storage'[1].value.nodes # Undefined
           /\ Restored(nodes, storage'[1].value.nodes[1])
      /\ (loadWorkflow /\ storage \notin BadSlots) =>
           /\ nodes' = storage[1].value.nodes[1]
           /\ edges' = storage[1].value.edges[1]
    ]_vars

\* the halted chain, saved, and loaded again: its four nodes are Idle
C15_Witness ==
  /\ storage = Some(SavedDocument(Placed(HaltedChainNodes), ChainEdges))
  /\ Len(nodes) = 4
  /\ Restored(Placed(HaltedChainNodes), nodes)
  /\ nodes[2].data.outputs = Some(EmptyObject)
  /\ edges = ChainEdges

-----------------------------------------------------------------------------
(* C16 *)

\* the node ids on a directed cycle, and those reachable from one
OnCycle(ns, es) == { id \in NodeIds(ns) : id \in Descendants(es, id) }

Stuck(ns, es) ==
  OnCycle(ns, es) \cup UNION { Descendants(es, id) : id \in OnCycle(ns, es) }

-----------------------------------------------------------------------------
(* C17 *)

\* the ids no edge points to, in stored node order
ReadyAtStart(ns, es) ==
  LET free == SeqFilter(ns, [ i \in 1..Len(ns) |->
                               \A k \in 1..Len(es) : es[k].target # ns[i].id ])
  IN  [ i \in 1..Len(free) |-> free[i].id ]

\* where id stands in an order that holds it once
PlaceOf(order, id) == CHOOSE i \in 1..Len(order) : order[i] = id

\* when a node of the order that was not ready at the start is discovered: the
\* place of the last of its sources to be dequeued, and the index in the edge
\* list of the last edge from that source to it
Discovery(order, es, id) ==
  LET incoming == { k \in 1..Len(es) : es[k].target = id }
      last     == Max({ PlaceOf(order, es[k].source) : k \in incoming })
  IN  << last, Max({ k \in incoming : es[k].source = order[last] }) >>

Earlier(a, b) == a[1] < b[1] \/ (a[1] = b[1] /\ a[2] < b[2])

\* C17: getExecutionOrder is FIFO Kahn: its result begins with the nodes of
\* in-degree zero in stored node order, the nodes that become ready later
\* follow in the order of their discovery (by the place of the dequeued source,
\* then by edge-list order), and the result is a function of nodes and edges.
C17_FifoOrder ==
  (fnOut.fn = "getExecutionOrder" /\ ~fnOut.threw)
  => LET order == fnOut.order
         ready == ReadyAtStart(nodes, edges)
     IN  /\ Len(ready) <= Len(order)
         /\ SubSeq(order, 1, Len(ready)) = ready
         /\ \A i, j \in (Len(ready) + 1)..Len(order) :
              i < j => Earlier(Discovery(order, edges, order[i]),
                               Discovery(order, edges, order[j]))
         /\ \A i \in (Len(ready) + 1)..Len(order) :
              Discovery(order, edges, order[i])[1] < i
         /\ order = getExecutionOrder(nodes, edges).order

\* two successors of one node, discovered against the stored node order
C17_Witness ==
  /\ fnOut.fn = "getExecutionOrder"
  /\ ~fnOut.threw
  /\ Len(fnOut.order) = 3
  /\ ReadyAtStart(nodes, edges) = << nodes[1].id >>
  /\ fnOut.order = << nodes[1].id, nodes[3].id, nodes[2].id >>
  /\ Discovery(fnOut.order, edges, nodes[3].id)[1] = 1
  /\ Discovery(fnOut.order, edges, nodes[2].id)[1] = 1

-----------------------------------------------------------------------------
(* C18 *)

\* the fields of the nodes that a run writes
RunFields(ns) ==
  [ i \in 1..Len(ns) |-> [ id        |-> ns[i].id,
                           status    |-> ns[i].data.status,
                           response  |-> ns[i].data.response,
                           error     |-> ns[i].data.error,
                           timestamp |-> ns[i].data.timestamp ] ]

\* a step of the executor: a run starts, or resumes when the port returns
IsExecutorStep == executeWorkflow \/ \E r \in RunIds : portReturn(r)

\* C18: while a run is in progress (isExecuting is true) only the executor's
\* own steps change a node's status, response, error or timestamp; no reset,
\* load or other operation of the user writes them.
C18_ExecutorSoleWriter ==
  [][ (isExecuting /\ ~IsExecutorStep) => RunFields(nodes') = RunFields(nodes) ]_vars

-----------------------------------------------------------------------------
(* C19 *)

\* the Scanners that the node id has an edge to
ScannersFedBy(ns, es, id) ==
  { t \in NodeIds(ns) : KindOf(ns, t) = Some("scanner") /\ <<id, t>> \in EdgePairs(es) }

\* C19: a run starts (isExecuting is set) only on a graph in which no Card
\* Capture has edges to more than one Scanner, however the graph came into the
\* store.
C19_OneScannerPerCapture ==
  [][ (executeWorkflow /\ isExecuting')
      => \A id \in NodeIds(nodes) :
           KindOf(nodes, id) = Some("cardCapture")
             => Cardinality(ScannersFedBy(nodes, edges, id)) <= 1 ]_vars

-----------------------------------------------------------------------------
(* C20 *)

\* some End can be reached from some Start along the edges
EndReachable(ns, es) ==
  \E a, b \in NodeIds(ns) :
    /\ KindOf(ns, a) = Some("start")
    /\ KindOf(ns, b) = Some("end")
    /\ b \in Descendants(es, a)

\* the step is one of the executor that writes a status or calls the port
IsAttempt ==
  /\ IsExecutorStep
  /\ \/ portLog' # portLog
     \/ [ i \in 1..Len(nodes') |-> nodes'[i].data.status ]
          # [ i \in 1..Len(nodes) |-> nodes[i].data.status ]

\* C20: executeWorkflow changes a node's status or calls the port only on a
\* graph that is acyclic and whose End is reachable from its Start.
C20_RunsOnlyDagStartToEnd ==
  [][ IsAttempt => Acyclic(nodes, edges) /\ EndReachable(nodes, edges) ]_vars

\* C20, its two halves apart
C20_RunsOnlyAcyclic == [][ IsAttempt => Acyclic(nodes, edges) ]_vars

C20_RunsOnlyStartToEnd == [][ IsAttempt => EndReachable(nodes, edges) ]_vars

-----------------------------------------------------------------------------
(* C21 *)

\* C21: no call of executeWorkflow ends in an exception: on every graph that
\* passes validation, edges from or to ids of no node included, the call
\* returns with isExecuting false and failures recorded on the nodes.
C21_NeverThrows == \A r \in RunIds : runs[r].pc # "threw"

-----------------------------------------------------------------------------
(* C22 *)

\* C22: in every reachable state the ids of the nodes are pairwise distinct:
\* no import, of either format, and no load puts two nodes of one id in place.
C22_DistinctIds ==
  \A i, j \in 1..Len(nodes) : nodes[i].id = nodes[j].id => i = j

\* C22 for the two formats apart: the labeled one leaves an alert, the raw one none
C22_DistinctIdsLabeled ==
  lastAlert = ConnectAlert("Workflow imported successfully!") => C22_DistinctIds

C22_DistinctIdsRaw ==
  lastAlert = NoAlert => C22_DistinctIds

-----------------------------------------------------------------------------
(* C23 *)

\* the positions of its order that invocation r has come to, the one it waits
\* at or halted at included
Reached(r) ==
  IF runs[r].pc \in {"awaiting", "halted"} THEN 1..runs[r].i ELSE Passed(r)

\* the ids at those positions that are neither Start nor End, in order
StepsReached(r) ==
  LET order == runs[r].order
      upto  == SubSeq(order, 1, Cardinality(Reached(r)))
      steps == SeqFilter(upto, [ j \in 1..Len(upto) |-> IsStep(upto[j]) ])
  IN  steps

-----------------------------------------------------------------------------
(* C24 *)

\* the wiring rules the connection would break in the graph: a Scanner takes
\* its edge from a Card Capture only, takes one edge only, and a Card Capture
\* feeds one Scanner only
BreaksRule(ns, es, connection) ==
  LET toScanner == KindOf(ns, connection.target) = Some("scanner")
  IN  \/ toScanner /\ KindOf(ns, connection.source) # Some("cardCapture")
      \/ toScanner /\ \E k \in 1..Len(es) : es[k].target = connection.target
      \/ /\ toScanner
         /\ KindOf(ns, connection.source) = Some("cardCapture")
         /\ ScannersFedBy(ns, es, connection.source) \ {connection.target} # {}

\* C24: onConnect commits every connection that breaks none of the three
\* wiring rules: also one from a Card Capture that feeds a Scanner already to
\* a target that is not a Scanner.
C24_ConformingConnectionsCommitted ==
  [][ \A connection \in Connections(nodes) :
        (onConnect(connection) /\ ~BreaksRule(nodes, edges, connection))
        => edges' = addEdge(connection, edges) ]_vars

-----------------------------------------------------------------------------
(* C25 *)

\* the fields of a node that no run is to write; inputs that were never set
\* count as the empty object
Definition(node) ==
  << node.id, node.position, node.data.id, node.data.type, node.data.label,
     node.data.apiEndpoint, OrElse(node.data.inputs, EmptyObject), node.data.outputs >>

\* C25: a step of a run changes no node's id, kind, label, apiEndpoint,
\* inputs, outputs or position and leaves the edges as they are: inputs edited
\* while the node's port call is in flight are still there once the node is
\* marked Success.
C25_RunKeepsDefinitions ==
  [][ IsExecutorStep
      => /\ Len(nodes') = Len(nodes)
         /\ \A i \in 1..Len(nodes) : Definition(nodes'[i]) = Definition(nodes[i])
         /\ edges' = edges ]_vars

-----------------------------------------------------------------------------
(* C26 *)

\* the ids at the positions of its order that invocation r deals with in the step
Touched(r) ==
  LET lo == IF runs[r].pc = "awaiting" THEN runs[r].i ELSE 1
      hi == IF runs'[r].pc \in {"awaiting", "halted"}
            THEN runs'[r].i ELSE Len(runs'[r].order)
  IN  { runs'[r].order[j] : j \in lo..hi }

\* C26: a run leaves the nodes outside its executed prefix, those after the
\* node it halts at and those absent from its order, exactly as they were: it
\* resets nothing at its start, and what an earlier run left on such a node
\* stays.
C26_RunLeavesTheRest ==
  [][ /\ Len(nodes') = Len(nodes)
      /\ \A i \in 1..Len(nodes) :
           nodes'[i] # nodes[i]
           => \E r \in RunIds : runs'[r] # runs[r] /\ nodes[i].id \in Touched(r) ]_vars

\* a run has halted at the Liveness Check; the End after it is still Success,
\* with the completion payload of the run before
C26_Witness ==
  /\ edges = ShortEdges
  /\ runs[1].pc = "halted"
  /\ runs[1].order = << 1, 2, 4 >>
  /\ runs[1].i = 2
  /\ nodes[2].data.status = "failed"
  /\ nodes[3].data.status = "success"
  /\ nodes[3].data.response # Undefined
  /\ nodes[3] = StaleShortNodes[3]

-----------------------------------------------------------------------------
(* C27 *)

\* C27: while a run has a call of the port in flight, and so nodes left to
\* execute, isExecuting is true, also after a reset during the run.
C27_FlagCoversRun == InFlight # {} => isExecuting

-----------------------------------------------------------------------------
(* C28 *)

\* the positions of its order at which invocation r has marked an End Success
EndsMarked(r) == { e \in Passed(r) : DataOf(runs[r].order[e]).type = "end" }

\* the nodes of the graph that are neither Start nor End
Steps == { id \in NodeIds(nodes) : IsStep(id) }

\* every such node was executed, and so marked Success, before position e
AllStepsBefore(r, e) ==
  \A id \in Steps : \E j \in 1..(e - 1) : runs[r].order[j] = id

\* the run has come to no such node after position e
NoStepAfter(r, e) ==
  \A j \in Reached(r) : j > e => ~IsStep(runs[r].order[j])

\* C28: when a run marks the End Success, every node of the graph that is
\* neither Start nor End has been executed and marked Success in that run, and
\* the run executes no node after the End.
C28_EndClosesRun ==
  \A r \in RunIds :
    LatestRun(r) => \A e \in EndsMarked(r) : AllStepsBefore(r, e) /\ NoStepAfter(r, e)

\* C28, its two halves apart
C28_EndAfterAllSteps ==
  \A r \in RunIds : LatestRun(r) => \A e \in EndsMarked(r) : AllStepsBefore(r, e)

C28_NothingAfterEnd ==
  \A r \in RunIds : LatestRun(r) => \A e \in EndsMarked(r) : NoStepAfter(r, e)

-----------------------------------------------------------------------------
(* C29 *)

\* C29: in every state reached from a graph without edges by connections,
\* removals of edges and updates of node data, every Scanner has at most one
\* incoming edge, that edge comes from a Card Capture, and every Card Capture
\* has edges to at most one Scanner.
C29_WiringInvariant ==
  \A id \in NodeIds(nodes) :
    /\ KindOf(nodes, id) = Some("scanner")
       => /\ Cardinality({ k \in 1..Len(edges) : edges[k].target = id }) <= 1
          /\ \A k \in 1..Len(edges) :
               edges[k].target = id => KindOf(nodes, edges[k].source) = Some("cardCapture")
    /\ KindOf(nodes, id) = Some("cardCapture")
       => Cardinality(ScannersFedBy(nodes, edges, id)) <= 1

\* both Scanners are fed, each by a Card Capture of its own, a Card Capture
\* was refused a second Scanner, and the edited nodes kept their kinds
C29_Witness ==
  /\ << 1, 2 >> \in EdgePairs(edges)
  /\ << 4, 3 >> \in EdgePairs(edges)
  /\ lastAlert.text \in { "Card Capture can only connect to one Scanner node",
                          "Scanner already has an incoming connection" }
  /\ nodes[1].data.label = "Renamed"
  /\ nodes[1].data.type = "cardCapture"
  /\ nodes[2].data.label = "Renamed"
  /\ nodes[2].data.type = "scanner"

-----------------------------------------------------------------------------
(* C30 *)

\* the kinds whose Sidebar template has an apiEndpoint
PortedKinds == { "liveness", "cardCapture", "scanner" }

\* a node as dropped from the Sidebar: the endpoint is its template's
FromTemplate(node) ==
  /\ node.data.type \in PortedKinds
  /\ node.data.apiEndpoint = TemplateEndpoint(node.data.type)

\* C30: a node created from a Sidebar template, its endpoint unchanged, is
\* never marked Failed by a run: the port recognizes the endpoint of every
\* template.
C30_TemplatesSucceed ==
  \A i \in 1..Len(nodes) :
    FromTemplate(nodes[i]) => nodes[i].data.status # "failed"

\* C30, the table: every endpoint of a template is one the port answers
C30_TemplateEndpointsRecognized ==
  \A kind \in PortedKinds : Recognized(TemplateEndpoint(kind)[1])

====
